---- MODULE Spec2Model ----
(***************************************************************************)
(* Model of poc/before/load_students.py: the Ed-Fi API client              *)
(* (discover_endpoints, authenticate, make_request) and the student        *)
(* loader (load_student, load_all_students, main).                         *)
(*                                                                         *)
(* The program is single threaded.  Every network call is split in two     *)
(* steps: the request is put in flight, then the remote's answer arrives.  *)
(* The remote is unconstrained: every answer is drawn from a small set.    *)
(* Python's None is the string "None"; a key missing from a JSON document  *)
(* is the string "<missing>".                                              *)
(***************************************************************************)
EXTENDS Integers, Sequences, FiniteSets, TLC

\* ------------------------------------------------------------- bounds
\* Largest number of rows of students.csv.
MaxRecords == 2

\* ------------------------------------------------------------- values
None == "None"
Missing == "<missing>"

\* URLs a discovery document may carry ("" is an empty string).
UrlValues == {None, "", "u1"}
\* Tokens a token response may carry.
TokenValues == {None, "", "t1", "t2"}
\* HTTP statuses the remote may answer with: 200 stands for every 2xx,
\* 304 for a 3xx that is not followed, 500 for every 4xx/5xx but 401.
Statuses == {200, 304, 401, 500}
\* Response bodies of the data API: empty, two JSON documents, not JSON.
Bodies == {"", "{\"id\":1}", "{\"id\":2}", "<html>"}
\* The fullTime column of a row, the EDFI_SCHOOL_ID setting.
FullTimeValues == {"1", "abc"}
SchoolIdValues == {"255901001", "abc"}

StudentsEndpoint == "/ed-fi/students"
AssociationsEndpoint == "/ed-fi/studentSchoolAssociations"

\* Python truthiness of an Optional[str].
Truthy(v) == v \notin {None, ""}

\* requests raises MissingSchema/InvalidURL before sending to such a URL.
ValidUrl(v) == v = "u1"

\* Response.raise_for_status(): raises HTTPError for 4xx and 5xx only.
RaiseForStatus(status) == status >= 400 /\ status < 600

\* Response.json(): the parsed document, as a set of <<key, value>> pairs.
IsJson(body) == body \in {"{\"id\":1}", "{\"id\":2}"}
ResponseJson(body) ==
    IF body = "{\"id\":1}" THEN {<<"id", 1>>}
    ELSE IF body = "{\"id\":2}" THEN {<<"id", 2>>}
    ELSE {}

\* float(student.full_time) and int(school_id) raise ValueError on these.
FloatParses(s) == s \in {"1", "0.5"}
IntParses(s) == s \in {"255901001", "123456"}

\* ------------------------------------------------------------- remote answers
DataResponses == [err : BOOLEAN, status : Statuses, body : Bodies]
DiscoveryResponses ==
    [err : BOOLEAN, status : Statuses, json : BOOLEAN,
     oauth : UrlValues \cup {Missing}, dataManagementApi : UrlValues \cup {Missing}]
TokenResponses ==
    [err : BOOLEAN, status : Statuses, json : BOOLEAN,
     access_token : TokenValues \cup {Missing}]

\* ------------------------------------------------------------- state
VARIABLES
    students,                 \* rows read from students.csv
    school_id,                \* EdFiApiClient.school_id
    access_token,             \* EdFiApiClient.access_token
    oauth_url,                \* EdFiApiClient.oauth_url
    data_management_api_url,  \* EdFiApiClient.data_management_api_url
    pc,                       \* position of the single thread of control
    idx,                      \* iteration of the for loop of load_all_students
    success_count,            \* load_all_students local
    error_count,              \* load_all_students local
    inflight,                 \* the HTTP request awaiting its answer
    mr,                       \* frame of the current/last make_request call
    auth_from,                \* call site of the running authenticate()
    outcome,                  \* per record: how load_student ended
    primary_done,             \* records whose primary make_request returned
    assoc_sent,               \* records for which an association POST was sent
    last_rec,                 \* record of the latest data request sent
    attempts,                 \* per record: calls of load_student
    wire,                     \* the requests sent while the remote accepted everything
    student,                  \* argument of create_student_payload
    payload,                  \* result of create_student_payload
    returned,                 \* value load_all_students returned (<<>> is None)
    exit_code                 \* process exit status (-1 while running)

vars == <<students, school_id, access_token, oauth_url, data_management_api_url,
          pc, idx, success_count, error_count, inflight, mr, auth_from,
          outcome, primary_done, assoc_sent, last_rec, attempts, wire,
          student, payload, returned, exit_code>>

client == <<access_token, oauth_url, data_management_api_url>>
tally == <<success_count, error_count>>
history == <<outcome, primary_done, assoc_sent, last_rec, attempts>>
config == <<students, school_id>>
building == <<student, payload>>
finish == <<returned, exit_code>>

NoRequest == [kind |-> "none", endpoint |-> "", method |-> "", rec |-> 0, token |-> ""]

\* The log of the requests put on the wire, kept for as long as the remote
\* has accepted everything (ok); clean records that every 2xx body so far
\* was empty or JSON.  Once the remote rejects something the log is dropped.
NoWire == [ok |-> FALSE, clean |-> FALSE, log |-> <<>>]
Logged(w, req) ==
    IF w.ok THEN [w EXCEPT !.log = Append(@, [req EXCEPT !.token = ""])] ELSE w
Heard(w, accepted, parseable) ==
    IF w.ok /\ accepted THEN [w EXCEPT !.clean = @ /\ parseable] ELSE NoWire

\* A fresh make_request frame: its arguments, its local `headers`
\* (the bearer token), and what the call has done so far.
NewCall(endpoint, method, rec) ==
    [endpoint |-> endpoint, method |-> method, rec |-> rec,
     authorization |-> "-",
     sends |-> 0, auths |-> 0, reauths |-> 0,
     firstStatus |-> 0, retryStatus |-> 0,
     retryToken |-> "-", rejected |-> "-",
     reauthStored |-> "-", retryBody |-> "-",
     state |-> "active", failure |-> "-", result |-> {}]

IdleCall == [NewCall("", "", 0) EXCEPT !.state = "idle"]

\* Mutant: the rows are taken last to first.
RecordAtReversed(p, n) == n + 1 - p

\* for student in students: the p-th iteration handles the p-th row.
RecordAt(p, n) == p

CurrentRecord == RecordAt(idx, Len(students))

\* StudentRecord: the fields create_student_payload reads.
OptionalValues == {None, "", "Emily"}
StudentRecords ==
    [unique_id : {"604835", "604836"}, birth_date : {"2016-09-29"},
     first_name : {"Diana", ""}, last_name : {"Holt"},
     middle_name : OptionalValues, title : OptionalValues,
     preferred_first_name : OptionalValues, preferred_last_name : OptionalValues]
NoStudent ==
    [unique_id |-> "", birth_date |-> "", first_name |-> "", last_name |-> "",
     middle_name |-> None, title |-> None,
     preferred_first_name |-> None, preferred_last_name |-> None]

Init ==
    /\ students \in UNION {[1..n -> [full_time : FullTimeValues]] : n \in 0..MaxRecords}
    /\ school_id \in SchoolIdValues
    /\ access_token = None
    /\ oauth_url = None
    /\ data_management_api_url = None
    /\ pc = "main"
    /\ idx = 1
    /\ success_count = 0
    /\ error_count = 0
    /\ inflight = NoRequest
    /\ mr = IdleCall
    /\ auth_from = "-"
    /\ outcome = [i \in 1..Len(students) |-> "pending"]
    /\ primary_done = {}
    /\ assoc_sent = {}
    /\ last_rec = 0
    /\ attempts = [i \in 1..Len(students) |-> 0]
    /\ wire = [ok |-> TRUE, clean |-> TRUE, log |-> <<>>]
    /\ student = NoStudent
    /\ payload = {}
    /\ returned = <<>>
    /\ exit_code = -1

\* ------------------------------------------------------------- main
\* main(): os.path.exists / read_csv_file fail before any record is loaded;
\* the exception reaches main's handler, which exits with status 1.
ReadCsvFile ==
    /\ pc = "main"
    /\ \E ok \in BOOLEAN :
        IF ok THEN /\ pc' = "loop"
                   /\ exit_code' = exit_code
        ELSE /\ pc' = "exit"
             /\ exit_code' = 1
    /\ UNCHANGED <<config, building, wire, client, idx, tally, inflight, mr, auth_from, history, returned>>

\* ------------------------------------------------------------- load_student
\* Mutant: the records are upserted instead of created.
UpsertMethod == "PUT"

\* The method load_student passes to make_request, for both endpoints.
CreateMethod == "POST"

\* for student in students: load_student(student) builds the student payload
\* and calls make_request('/ed-fi/students', 'POST', payload).
LoadStudent ==
    /\ pc = "loop"
    /\ idx <= Len(students)
    /\ mr' = NewCall(StudentsEndpoint, CreateMethod, CurrentRecord)
    /\ attempts' = [attempts EXCEPT ![CurrentRecord] = @ + 1]
    /\ pc' = "mr_start"
    /\ UNCHANGED <<config, building, wire, client, idx, tally, inflight, auth_from,
                   outcome, primary_done, assoc_sent, last_rec, finish>>

\* Mutant: the association payload is built without converting anything.
PayloadAlwaysBuilds(row, sid) == TRUE

\* create_student_school_association_payload: float(full_time), then
\* int(school_id); either raises ValueError.
AssociationPayloadBuilds(row, sid) == FloatParses(row.full_time) /\ IntParses(sid)

\* Mutant: load_student returns once the student is created.
AfterPrimaryOnly ==
    /\ pc = "mr_ret"
    /\ mr.endpoint = StudentsEndpoint
    /\ primary_done' = primary_done \cup {mr.rec}
    /\ success_count' = success_count + 1
    /\ outcome' = [outcome EXCEPT ![mr.rec] = "success"]
    /\ idx' = idx + 1
    /\ pc' = "loop"
    /\ UNCHANGED <<config, building, wire, client, error_count, inflight, mr, auth_from,
                   assoc_sent, last_rec, attempts, finish>>

\* The primary make_request returned: build the association payload and
\* call make_request('/ed-fi/studentSchoolAssociations', 'POST', payload).
AfterPrimary ==
    /\ pc = "mr_ret"
    /\ mr.endpoint = StudentsEndpoint
    /\ primary_done' = primary_done \cup {mr.rec}
    /\ IF AssociationPayloadBuilds(students[mr.rec], school_id)
       THEN /\ mr' = NewCall(AssociationsEndpoint, CreateMethod, mr.rec)
            /\ pc' = "mr_start"
       ELSE /\ mr' = mr
            /\ pc' = "raise"
    /\ UNCHANGED <<config, building, wire, client, idx, tally, inflight, auth_from,
                   outcome, assoc_sent, last_rec, attempts, finish>>

\* The association make_request returned: load_student returns and
\* load_all_students counts a success and takes the next row.
AfterAssociation ==
    /\ pc = "mr_ret"
    /\ mr.endpoint = AssociationsEndpoint
    /\ success_count' = success_count + 1
    /\ outcome' = [outcome EXCEPT ![mr.rec] = "success"]
    /\ idx' = idx + 1
    /\ pc' = "loop"
    /\ UNCHANGED <<config, building, wire, client, error_count, inflight, mr, auth_from,
                   primary_done, assoc_sent, last_rec, attempts, finish>>

\* The step of load_student an exception came from.
FailedStep ==
    IF mr.state = "raised"
    THEN (IF mr.endpoint = StudentsEndpoint THEN "primary" ELSE "association")
    ELSE "payload"

\* Mutant: load_student logs the exception and does not re-raise it, so
\* load_all_students counts the record as loaded.
HandleRecordErrorSwallowed ==
    /\ pc = "raise"
    /\ success_count' = success_count + 1
    /\ outcome' = [outcome EXCEPT ![mr.rec] = FailedStep]
    /\ idx' = idx + 1
    /\ pc' = "loop"
    /\ UNCHANGED <<config, building, wire, client, error_count, inflight, mr, auth_from,
                   primary_done, assoc_sent, last_rec, attempts, finish>>

\* Mutant: the first failing record ends the loop.
HandleRecordErrorAborts ==
    /\ pc = "raise"
    /\ error_count' = error_count + 1
    /\ outcome' = [outcome EXCEPT ![mr.rec] = FailedStep]
    /\ idx' = Len(students) + 1
    /\ pc' = "loop"
    /\ UNCHANGED <<config, building, wire, client, success_count, inflight, mr, auth_from,
                   primary_done, assoc_sent, last_rec, attempts, finish>>

\* Mutant: a discovery or authentication failure is not caught by
\* load_all_students and reaches main's handler, which exits with status 1.
HandleRecordErrorFatal ==
    /\ pc = "raise"
    /\ IF mr.failure \in {"discovery", "authentication"}
       THEN /\ pc' = "exit"
            /\ exit_code' = 1
            /\ UNCHANGED <<error_count, outcome, idx>>
       ELSE /\ error_count' = error_count + 1
            /\ outcome' = [outcome EXCEPT ![mr.rec] = FailedStep]
            /\ idx' = idx + 1
            /\ pc' = "loop"
            /\ exit_code' = exit_code
    /\ UNCHANGED <<config, building, wire, client, success_count, inflight, mr, auth_from,
                   primary_done, assoc_sent, last_rec, attempts, returned>>

\* Mutant: a failure of the primary make_request is logged and load_student
\* goes on to the association.
HandleRecordErrorContinues ==
    /\ pc = "raise"
    /\ IF FailedStep = "primary"
       THEN /\ mr' = NewCall(AssociationsEndpoint, CreateMethod, mr.rec)
            /\ pc' = "mr_start"
            /\ UNCHANGED <<error_count, outcome, idx>>
       ELSE /\ error_count' = error_count + 1
            /\ outcome' = [outcome EXCEPT ![mr.rec] = FailedStep]
            /\ idx' = idx + 1
            /\ pc' = "loop"
            /\ mr' = mr
    /\ UNCHANGED <<config, building, wire, client, success_count, inflight, auth_from,
                   primary_done, assoc_sent, last_rec, attempts, finish>>

\* Any exception inside load_student: logged and re-raised there, caught by
\* `except Exception` of load_all_students, which counts an error and goes on.
HandleRecordError ==
    /\ pc = "raise"
    /\ error_count' = error_count + 1
    /\ outcome' = [outcome EXCEPT ![mr.rec] = FailedStep]
    /\ idx' = idx + 1
    /\ pc' = "loop"
    /\ UNCHANGED <<config, building, wire, client, success_count, inflight, mr, auth_from,
                   primary_done, assoc_sent, last_rec, attempts, finish>>

\* Mutant: load_all_students returns the two counts.
LoadAllReturnsSummary(s, e) == <<s, e>>

\* What load_all_students returns: nothing (None, written <<>>); the two
\* counts are only logged.
LoadAllReturn(s, e) == <<>>

\* The loop is exhausted: the summary is logged and load_all_students returns.
LoadComplete ==
    /\ pc = "loop"
    /\ idx > Len(students)
    /\ returned' = LoadAllReturn(success_count, error_count)
    /\ pc' = "main_ret"
    /\ UNCHANGED <<config, building, wire, client, idx, tally, inflight, mr, auth_from, history, exit_code>>

\* main after load_all_students returned: logs completion and falls off
\* the end, whatever was returned.
MainExitCode(ret) == 0

MainExit ==
    /\ pc = "main_ret"
    /\ exit_code' = MainExitCode(returned)
    /\ pc' = "done"
    /\ UNCHANGED <<config, building, wire, client, idx, tally, inflight, mr, auth_from, history, returned>>

\* ------------------------------------------------------------- EdFiApiClient
\* An exception leaves make_request: from authenticate()/discover_endpoints()
\* (Exception, KeyError), from the URL join (TypeError) or re-raised by
\* `except requests.RequestException`.  All of them reach load_student.
Raised(frame, what) == [frame EXCEPT !.state = "raised", !.failure = what]

\* Mutant: make_request authenticates at the start of every call.
AlwaysAuthenticates(token) == TRUE

\* make_request: `if not self.access_token: self.authenticate()`.
NeedsAuthentication(token) == ~Truthy(token)

MakeRequestStart ==
    /\ pc = "mr_start"
    /\ IF NeedsAuthentication(access_token)
       THEN /\ pc' = "auth"
            /\ auth_from' = "start"
            /\ mr' = [mr EXCEPT !.auths = @ + 1]
       ELSE /\ pc' = "mr_send"
            /\ UNCHANGED <<auth_from, mr>>
    /\ UNCHANGED <<config, building, wire, client, idx, tally, inflight, history, finish>>

\* Mutant: discover_endpoints has no cache check.
EndpointsNeverCached(oauth, dm) == FALSE

\* discover_endpoints: `if self.oauth_url and self.data_management_api_url: return`.
EndpointsCached(oauth, dm) == Truthy(oauth) /\ Truthy(dm)

\* authenticate() begins with discover_endpoints(): a no-op when cached,
\* otherwise requests.get(self.base_url).
DiscoverEndpoints ==
    /\ pc = "auth"
    /\ IF EndpointsCached(oauth_url, data_management_api_url)
       THEN /\ pc' = "auth_post"
            /\ inflight' = inflight
            /\ wire' = wire
       ELSE /\ pc' = "disc_wait"
            /\ inflight' = [NoRequest EXCEPT !.kind = "discovery", !.method = "GET"]
            /\ wire' = Logged(wire, inflight')
    /\ UNCHANGED <<config, building, client, idx, tally, mr, auth_from, history, finish>>

\* The body of discover_endpoints after the GET: what it raises and what it
\* has assigned by then.  oauth_url is assigned before
\* api_info['urls']['dataManagementApi'] is looked up.
Discover(resp, oauth, dm) ==
    IF resp.err \/ RaiseForStatus(resp.status) \/ ~resp.json \/ resp.oauth = Missing
    THEN [raised |-> TRUE, oauth_url |-> oauth, data_management_api_url |-> dm]
    ELSE IF resp.dataManagementApi = Missing
    THEN [raised |-> TRUE, oauth_url |-> resp.oauth, data_management_api_url |-> dm]
    ELSE [raised |-> FALSE, oauth_url |-> resp.oauth,
          data_management_api_url |-> resp.dataManagementApi]

\* The remote answered the discovery GET with a valid document.
DiscoveryAccepted(resp) ==
    /\ ~resp.err /\ resp.status = 200 /\ resp.json
    /\ ValidUrl(resp.oauth) /\ ValidUrl(resp.dataManagementApi)

DiscoveryResponse ==
    /\ pc = "disc_wait"
    /\ \E resp \in DiscoveryResponses :
        LET r == Discover(resp, oauth_url, data_management_api_url) IN
        /\ oauth_url' = r.oauth_url
        /\ data_management_api_url' = r.data_management_api_url
        /\ wire' = Heard(wire, DiscoveryAccepted(resp), TRUE)
        /\ IF r.raised
           THEN /\ pc' = "raise"
                /\ mr' = Raised(mr, "discovery")
           ELSE /\ pc' = "auth_post"
                /\ mr' = mr
    /\ inflight' = NoRequest
    /\ UNCHANGED <<config, building, access_token, idx, tally, auth_from, history, finish>>

\* authenticate: requests.post(self.oauth_url, ...); requests refuses a URL
\* that is None or empty without sending anything.
TokenRequest ==
    /\ pc = "auth_post"
    /\ IF ValidUrl(oauth_url)
       THEN /\ pc' = "tok_wait"
            /\ inflight' = [NoRequest EXCEPT !.kind = "token", !.method = "POST"]
            /\ wire' = Logged(wire, inflight')
            /\ mr' = mr
       ELSE /\ pc' = "raise"
            /\ inflight' = inflight
            /\ wire' = wire
            /\ mr' = Raised(mr, "authentication")
    /\ UNCHANGED <<config, building, client, idx, tally, auth_from, history, finish>>

\* authenticate after the POST: raise_for_status, json(), ['access_token'].
AuthenticateFails(resp) ==
    resp.err \/ RaiseForStatus(resp.status) \/ ~resp.json \/ resp.access_token = Missing

\* The remote accepted the credentials and answered with a token.
TokenAccepted(resp) ==
    ~resp.err /\ resp.status = 200 /\ resp.json /\ resp.access_token \in {"t1", "t2"}

\* Mutant: a failed authenticate() drops the stored token.
TokenResponseClearsOnFailure ==
    /\ pc = "tok_wait"
    /\ \E resp \in TokenResponses :
        /\ wire' = Heard(wire, TokenAccepted(resp), TRUE)
        /\ IF AuthenticateFails(resp)
           THEN /\ pc' = "raise"
                /\ mr' = Raised(mr, "authentication")
                /\ access_token' = None
           ELSE /\ access_token' = resp.access_token
                /\ IF auth_from = "start"
                   THEN /\ pc' = "mr_send"
                        /\ mr' = mr
                   ELSE /\ pc' = "mr_resend"
                        /\ mr' = [mr EXCEPT !.reauthStored = resp.access_token]
    /\ inflight' = NoRequest
    /\ UNCHANGED <<config, building, oauth_url, data_management_api_url, idx, tally,
                   auth_from, history, finish>>

\* Mutant: make_request swallows a failed re-authentication and resends.
TokenResponseResendsOnFailure ==
    /\ pc = "tok_wait"
    /\ \E resp \in TokenResponses :
        /\ wire' = Heard(wire, TokenAccepted(resp), TRUE)
        /\ IF AuthenticateFails(resp)
           THEN /\ access_token' = access_token
                /\ IF auth_from = "start"
                   THEN /\ pc' = "raise"
                        /\ mr' = Raised(mr, "authentication")
                   ELSE /\ pc' = "mr_resend"
                        /\ mr' = mr
           ELSE /\ access_token' = resp.access_token
                /\ IF auth_from = "start"
                   THEN /\ pc' = "mr_send"
                        /\ mr' = mr
                   ELSE /\ pc' = "mr_resend"
                        /\ mr' = [mr EXCEPT !.reauthStored = resp.access_token]
    /\ inflight' = NoRequest
    /\ UNCHANGED <<config, building, oauth_url, data_management_api_url, idx, tally,
                   auth_from, history, finish>>

TokenResponse ==
    /\ pc = "tok_wait"
    /\ \E resp \in TokenResponses :
        /\ wire' = Heard(wire, TokenAccepted(resp), TRUE)
        /\ IF AuthenticateFails(resp)
           THEN /\ pc' = "raise"
                /\ mr' = Raised(mr, "authentication")
                /\ access_token' = access_token
           ELSE /\ access_token' = resp.access_token
                /\ IF auth_from = "start"
                   THEN /\ pc' = "mr_send"
                        /\ mr' = mr
                   ELSE /\ pc' = "mr_resend"
                        /\ mr' = [mr EXCEPT !.reauthStored = resp.access_token]
    /\ inflight' = NoRequest
    /\ UNCHANGED <<config, building, oauth_url, data_management_api_url, idx, tally,
                   auth_from, history, finish>>

\* The request make_request sends: method, full_url and data are the call's
\* own; the Authorization header carries `token`.
DataRequest(frame, token) ==
    [kind |-> "data", endpoint |-> frame.endpoint, method |-> frame.method,
     rec |-> frame.rec, token |-> token]

\* Bookkeeping of a data request put on the wire.
Sent(req) ==
    /\ inflight' = req
    /\ wire' = Logged(wire, req)
    /\ last_rec' = req.rec
    /\ assoc_sent' = IF req.endpoint = AssociationsEndpoint
                     THEN assoc_sent \cup {req.rec} ELSE assoc_sent

\* make_request: full_url = urljoin(self.data_management_api_url + '/', ...)
\* (TypeError on None), headers built from self.access_token, first
\* requests.request (refused without sending when the URL is not absolute).
SendRequest ==
    /\ pc = "mr_send"
    /\ IF ValidUrl(data_management_api_url)
       THEN /\ pc' = "mr_wait1"
            /\ mr' = [mr EXCEPT !.authorization = access_token, !.sends = @ + 1]
            /\ Sent(DataRequest(mr, access_token))
       ELSE /\ pc' = "raise"
            /\ mr' = Raised(mr, "url")
            /\ UNCHANGED <<inflight, last_rec, assoc_sent, wire>>
    /\ UNCHANGED <<config, building, client, idx, tally, auth_from, outcome, primary_done,
                   attempts, finish>>

\* make_request after the last response: raise_for_status(), then
\* `if response.content: return response.json()`, else `return {}`.
ResponseRaises(resp) ==
    resp.err \/ RaiseForStatus(resp.status) \/ (resp.body # "" /\ ~IsJson(resp.body))

ResponseResult(resp) == IF resp.body # "" THEN ResponseJson(resp.body) ELSE {}

Finish(frame, resp) ==
    IF ResponseRaises(resp)
    THEN Raised(frame, "request")
    ELSE [frame EXCEPT !.state = "returned", !.result = ResponseResult(resp)]

\* Mutant: every 4xx/5xx answer is taken for an expired token.
AnyErrorStatusExpired(resp) == ~resp.err /\ RaiseForStatus(resp.status)

\* The remote answered a data request with a 2xx; its body parses.
DataAccepted(resp) == ~resp.err /\ resp.status = 200
BodyParses(resp) == resp.body = "" \/ IsJson(resp.body)

\* make_request: `if response.status_code == 401`.
TokenExpired(resp) == ~resp.err /\ resp.status = 401

\* Mutant: a 401 on the first send clears the stored token.
FirstResponseClearsToken ==
    /\ pc = "mr_wait1"
    /\ \E resp \in DataResponses :
        LET seen == [mr EXCEPT !.firstStatus = IF resp.err THEN 0 ELSE resp.status] IN
        /\ wire' = Heard(wire, DataAccepted(resp), BodyParses(resp))
        /\ IF TokenExpired(resp)
           THEN /\ pc' = "auth"
                /\ auth_from' = "retry"
                /\ access_token' = None
                /\ mr' = [seen EXCEPT !.auths = @ + 1, !.reauths = @ + 1,
                                      !.rejected = mr.authorization]
           ELSE /\ mr' = Finish(seen, resp)
                /\ pc' = IF ResponseRaises(resp) THEN "raise" ELSE "mr_ret"
                /\ auth_from' = auth_from
                /\ access_token' = access_token
    /\ inflight' = NoRequest
    /\ UNCHANGED <<config, building, oauth_url, data_management_api_url, idx, tally,
                   history, finish>>

\* The answer to the first send: a 401 starts authenticate() again,
\* anything else ends the call.
FirstResponse ==
    /\ pc = "mr_wait1"
    /\ \E resp \in DataResponses :
        LET seen == [mr EXCEPT !.firstStatus = IF resp.err THEN 0 ELSE resp.status] IN
        /\ wire' = Heard(wire, DataAccepted(resp), BodyParses(resp))
        /\ IF TokenExpired(resp)
           THEN /\ pc' = "auth"
                /\ auth_from' = "retry"
                /\ mr' = [seen EXCEPT !.auths = @ + 1, !.reauths = @ + 1,
                                      !.rejected = mr.authorization]
           ELSE /\ mr' = Finish(seen, resp)
                /\ pc' = IF ResponseRaises(resp) THEN "raise" ELSE "mr_ret"
                /\ auth_from' = auth_from
    /\ inflight' = NoRequest
    /\ UNCHANGED <<config, building, client, idx, tally, history, finish>>

\* Mutant: the header of the resend is not rebuilt after authenticate().
StaleAuthorization(old, token) == old

\* make_request: headers['Authorization'] = f'Bearer {self.access_token}'.
RefreshedAuthorization(old, token) == token

\* The second requests.request, after authenticate() returned.
Resend ==
    /\ pc = "mr_resend"
    /\ LET hdr == RefreshedAuthorization(mr.authorization, access_token) IN
        /\ mr' = [mr EXCEPT !.authorization = hdr, !.retryToken = hdr, !.sends = @ + 1]
        /\ Sent(DataRequest(mr, hdr))
    /\ pc' = "mr_wait2"
    /\ UNCHANGED <<config, building, client, idx, tally, auth_from, outcome, primary_done,
                   attempts, finish>>

\* Mutant: a 401 answer to the resend starts authenticate() once more.
RetryResponseReauthenticates ==
    /\ pc = "mr_wait2"
    /\ \E resp \in DataResponses :
        LET seen == [mr EXCEPT !.retryStatus = IF resp.err THEN 0 ELSE resp.status,
                               !.retryBody = IF resp.err THEN "-" ELSE resp.body] IN
        /\ wire' = Heard(wire, DataAccepted(resp), BodyParses(resp))
        /\ IF TokenExpired(resp)
           THEN /\ pc' = "auth"
                /\ mr' = [seen EXCEPT !.auths = @ + 1, !.reauths = @ + 1]
           ELSE /\ mr' = Finish(seen, resp)
                /\ pc' = IF ResponseRaises(resp) THEN "raise" ELSE "mr_ret"
    /\ inflight' = NoRequest
    /\ UNCHANGED <<config, building, client, idx, tally, auth_from, history, finish>>

\* The answer to the resend ends the call, whatever it is.
RetryResponse ==
    /\ pc = "mr_wait2"
    /\ \E resp \in DataResponses :
        /\ mr' = Finish([mr EXCEPT !.retryStatus = IF resp.err THEN 0 ELSE resp.status,
                                   !.retryBody = IF resp.err THEN "-" ELSE resp.body], resp)
        /\ wire' = Heard(wire, DataAccepted(resp), BodyParses(resp))
        /\ pc' = IF ResponseRaises(resp) THEN "raise" ELSE "mr_ret"
    /\ inflight' = NoRequest
    /\ UNCHANGED <<config, building, client, idx, tally, auth_from, history, finish>>

\* ------------------------------------------------------------- specification
Next ==
    \/ ReadCsvFile
    \/ LoadStudent
    \/ MakeRequestStart
    \/ DiscoverEndpoints
    \/ DiscoveryResponse
    \/ TokenRequest
    \/ TokenResponse
    \/ SendRequest
    \/ FirstResponse
    \/ Resend
    \/ RetryResponse
    \/ AfterPrimary
    \/ AfterAssociation
    \/ HandleRecordError
    \/ LoadComplete
    \/ MainExit

Spec == Init /\ [][Next]_vars

\* The thread always takes its next step: every network call has a timeout.
FairSpec == Spec /\ WF_vars(Next)

\* ------------------------------------------------------------- payloads
\* Python truthiness of an optional field: None and '' are falsy.
Present(v) == v \notin {None, ""}

\* Mutant: optional fields are always written, absent ones as they are.
CreateStudentPayloadNullifies(st) ==
    {<<"studentUniqueId", st.unique_id>>, <<"birthDate", st.birth_date>>,
     <<"firstName", st.first_name>>, <<"lastSurName", st.last_name>>,
     <<"middleName", st.middle_name>>, <<"personalTitlePrefix", st.title>>,
     <<"preferredFirstName", st.preferred_first_name>>,
     <<"preferredLastSurname", st.preferred_last_name>>}

\* create_student_payload: the dict as a set of <<key, value>> items; the
\* four required keys, then one `if student.<field>:` per optional field.
CreateStudentPayload(st) ==
    {<<"studentUniqueId", st.unique_id>>, <<"birthDate", st.birth_date>>,
     <<"firstName", st.first_name>>, <<"lastSurName", st.last_name>>}
    \cup (IF Present(st.middle_name)
          THEN {<<"middleName", st.middle_name>>} ELSE {})
    \cup (IF Present(st.title)
          THEN {<<"personalTitlePrefix", st.title>>} ELSE {})
    \cup (IF Present(st.preferred_first_name)
          THEN {<<"preferredFirstName", st.preferred_first_name>>} ELSE {})
    \cup (IF Present(st.preferred_last_name)
          THEN {<<"preferredLastSurname", st.preferred_last_name>>} ELSE {})

\* loader.create_student_payload(student) called on one record, as
\* test_payload_creation does.
PayloadCreation ==
    /\ pc = "payload"
    /\ payload' = CreateStudentPayload(student)
    /\ pc' = "payload_built"
    /\ UNCHANGED <<config, client, wire, student, idx, tally, inflight, mr, auth_from,
                   history, finish>>

\* A loader over a fresh client, and any one record.
PayloadInit ==
    /\ student \in StudentRecords
    /\ payload = {}
    /\ pc = "payload"
    /\ students = <<>>
    /\ school_id = "255901001"
    /\ access_token = None
    /\ oauth_url = None
    /\ data_management_api_url = None
    /\ idx = 1
    /\ success_count = 0
    /\ error_count = 0
    /\ inflight = NoRequest
    /\ mr = IdleCall
    /\ auth_from = "-"
    /\ outcome = <<>>
    /\ primary_done = {}
    /\ assoc_sent = {}
    /\ last_rec = 0
    /\ attempts = <<>>
    /\ wire = [ok |-> TRUE, clean |-> TRUE, log |-> <<>>]
    /\ returned = <<>>
    /\ exit_code = -1

PayloadNext == PayloadCreation

PayloadSpec == PayloadInit /\ [][PayloadNext]_vars

\* ------------------------------------------------------------- claims
\* The make_request call of the frame has ended (returned or raised).
Ended == mr.state \in {"returned", "raised"}
\* The re-authentication of the call stored a token, i.e. succeeded.
ReauthSucceeded == mr.reauthStored # "-"
\* The answer to the resend was a transport error or a non-2xx status.
RetryNot2xx == mr.sends = 2 /\ Ended /\ mr.retryStatus # 200
\* The answer to the resend was a transport error or a 4xx/5xx status.
RetryErrorStatus ==
    mr.sends = 2 /\ Ended /\ (mr.retryStatus = 0 \/ RaiseForStatus(mr.retryStatus))
\* Every request on the wire for a make_request call is the call's request.
SameRequest ==
    inflight.kind = "data" =>
        /\ inflight.endpoint = mr.endpoint
        /\ inflight.method = mr.method
        /\ inflight.rec = mr.rec
        /\ mr.state = "active"
\* Bounds on what one call does.
CallBounds == mr.sends <= 2 /\ mr.reauths <= 1 /\ mr.auths <= 2

\* C1 as stated: in every make_request call a 401 on the first send causes
\* exactly one authenticate() followed by exactly one resend of the same
\* request, whatever the remote answers; a resend answered by anything but
\* a 2xx makes the call fail; at most 2 sends and 1 re-authentication.
C1_Original ==
    /\ CallBounds
    /\ SameRequest
    /\ (mr.firstStatus = 401 => mr.reauths = 1)
    /\ (Ended /\ mr.firstStatus = 401 => mr.sends = 2)
    /\ (RetryNot2xx => mr.state = "raised")

\* C1 amended: a 401 on the first send causes exactly one authenticate();
\* when it succeeds exactly one resend of the same request follows, when it
\* fails the call fails with no resend; a resend answered by a transport
\* error or a 4xx/5xx status makes the call fail with no further send and no
\* further authenticate(); at most 2 sends and 1 re-authentication per call.
C1_RetryOnce ==
    /\ CallBounds
    /\ SameRequest
    /\ (mr.firstStatus = 401 <=> mr.reauths = 1)
    /\ (mr.reauths = 0 => mr.sends <= 1)
    /\ (Ended /\ mr.firstStatus = 401 /\ ReauthSucceeded => mr.sends = 2)
    /\ (Ended /\ mr.firstStatus = 401 /\ ~ReauthSucceeded =>
            mr.sends = 1 /\ mr.state = "raised")
    /\ (RetryErrorStatus => mr.state = "raised")

\* A call that got 401, re-authenticated, resent, got 401 again and failed.
C1_Witness ==
    /\ pc = "raise"
    /\ mr.firstStatus = 401
    /\ mr.retryStatus = 401
    /\ mr.sends = 2
    /\ mr.reauths = 1
    /\ mr.state = "raised"

\* C2 as stated: a call whose first send gets 401 and whose resend gets a
\* 2xx returns the resend's body, re-authenticated exactly once, and sent
\* the resend with the token that re-authentication stored.
C2_Original ==
    (Ended /\ mr.firstStatus = 401 /\ mr.retryStatus = 200) =>
        /\ mr.state = "returned"
        /\ mr.result = ResponseResult([body |-> mr.retryBody])
        /\ mr.reauths = 1
        /\ mr.retryToken = mr.reauthStored

\* C2 amended: the same, for a resend answered by a 2xx whose body is empty
\* or parses as JSON: the call returns {} or the parsed body.  A 2xx with a
\* body that is not JSON makes the call fail in response.json().
C2_RetryReturns ==
    (Ended /\ mr.firstStatus = 401 /\ mr.retryStatus = 200) =>
        /\ mr.reauths = 1
        /\ mr.retryToken = mr.reauthStored
        /\ access_token = mr.reauthStored
        /\ IF mr.retryBody = "" \/ IsJson(mr.retryBody)
           THEN /\ mr.state = "returned"
                /\ mr.result = ResponseResult([body |-> mr.retryBody])
           ELSE mr.state = "raised"

\* A call that returned the JSON body of its resend, sent with a new token.
C2_Witness ==
    /\ pc = "mr_ret"
    /\ mr.firstStatus = 401
    /\ mr.retryStatus = 200
    /\ mr.result = {<<"id", 2>>}
    /\ mr.rejected = "t1"
    /\ mr.retryToken = "t2"

\* The rows of the batch, the rows that failed, the rows that loaded.
Records == 1..Len(students)
Failures == {"primary", "payload", "association"}
FailedRecords == {i \in Records : outcome[i] \in Failures}
LoadedRecords == {i \in Records : outcome[i] = "success"}
\* load_all_students has left its loop.
BatchOver == pc \in {"main_ret", "done"}
\* The tallies agree with how each load_student call ended.
TalliesAgree ==
    /\ error_count = Cardinality(FailedRecords)
    /\ success_count = Cardinality(LoadedRecords)

\* C3: when exactly record k fails, at its primary-create make_request, and
\* every other record loads, load_all_students ends with
\* success_count = N-1 and error_count = 1, and no association POST was
\* ever sent for record k.
C3_OnePrimaryFailure ==
    BatchOver =>
        \A k \in Records :
            (outcome[k] = "primary" /\ \A j \in Records \ {k} : outcome[j] = "success") =>
                /\ success_count = Len(students) - 1
                /\ error_count = 1
                /\ k \notin assoc_sent

\* A finished batch of two where the first record failed at the primary
\* POST itself and the second loaded.
C3_Witness ==
    /\ pc = "done"
    /\ Len(students) = 2
    /\ outcome[1] = "primary"
    /\ outcome[2] = "success"
    /\ assoc_sent = {2}
    /\ last_rec = 2

\* C4: whatever fails, load_all_students finishes having attempted every
\* record exactly once: at every record boundary success_count + error_count
\* is the number of records attempted, no record is attempted twice, a
\* failed record is followed by the attempt of the next one, and at the end
\* the sum is N.
C4_BatchCompletes ==
    /\ [](pc = "loop" =>
            /\ success_count + error_count = Cardinality({i \in Records : attempts[i] > 0})
            /\ \A i \in Records : attempts[i] = IF i < idx THEN 1 ELSE 0)
    /\ [](BatchOver =>
            /\ success_count + error_count = Len(students)
            /\ \A i \in Records : attempts[i] = 1)
    /\ [][pc = "raise" =>
            /\ pc' = "loop"
            /\ idx' = idx + 1
            /\ success_count' + error_count' = success_count + error_count + 1]_vars
    /\ [][pc = "loop" /\ idx <= Len(students) => attempts'[idx] = 1]_vars
    /\ (pc = "loop") ~> (pc = "done" /\ \A i \in Records : attempts[i] = 1)

\* The second record is being loaded after the first one failed.
C4_Witness ==
    /\ Len(students) = 2
    /\ outcome[1] \in Failures
    /\ attempts[2] = 1
    /\ pc = "mr_wait1"
    /\ error_count = 1

\* The last make_request failed in discover_endpoints or authenticate.
AuthFailed == mr.state = "raised" /\ mr.failure \in {"discovery", "authentication"}

\* C5 as stated: a discovery or authentication failure during a load run
\* aborts the run; the loader never goes back to its loop after it.
C5_Original == AuthFailed => pc \in {"raise", "exit"}

\* C5 amended: a discovery or authentication failure during a load run is
\* not run-fatal: it fails the make_request it occurs in, load_all_students
\* counts it as an error of that record and goes on to the next record; only
\* a failure before the loop (reading the file) ends the run with status 1.
C5_AuthFailureTallied ==
    /\ (AuthFailed /\ pc # "raise" =>
            /\ outcome[mr.rec] \in {"primary", "association"}
            /\ error_count >= 1
            /\ idx > mr.rec
            /\ pc \in {"loop", "main_ret", "done"})
    /\ TalliesAgree
    /\ (pc = "exit" => mr.state = "idle" /\ exit_code = 1)
    /\ (pc = "done" => exit_code = 0)

\* Authentication failed for the first record and the loop is about to take
\* the second one.
C5_Witness ==
    /\ pc = "loop"
    /\ AuthFailed
    /\ mr.rec = 1
    /\ idx = 2
    /\ Len(students) = 2
    /\ error_count = 1

C7_AssociationAfterPrimary ==
    /\ assoc_sent \subseteq primary_done
    /\ (inflight.kind = "data" /\ inflight.endpoint = AssociationsEndpoint =>
            inflight.rec \in primary_done)
    /\ \A k \in Records :
        /\ (outcome[k] = "primary" => k \notin assoc_sent /\ k \notin primary_done)
        /\ (outcome[k] # "pending" /\ k \notin primary_done => outcome[k] = "primary")
    /\ (pc = "raise" /\ mr.endpoint = StudentsEndpoint /\ mr.state = "raised" =>
            mr.rec \notin assoc_sent)
    /\ TalliesAgree

\* The primary POST of the first record was answered 500; the record is
\* counted as failed and nothing else was sent for it.
C7_Witness ==
    /\ pc = "loop"
    /\ mr.endpoint = StudentsEndpoint
    /\ mr.firstStatus = 500
    /\ mr.rec = 1
    /\ outcome[1] = "primary"
    /\ error_count = 1
    /\ assoc_sent = {}

\* C8: a record whose primary POST succeeded and whose association failed
\* is counted as an error, never as a success, and nothing is sent for it
\* afterwards; every data request of a run is a POST to the students or the
\* studentSchoolAssociations endpoint.
C8_NoCompensation ==
    /\ TalliesAgree
    /\ \A k \in Records :
        /\ (outcome[k] = "association" => k \in primary_done)
        /\ (outcome[k] # "pending" => ~(inflight.kind = "data" /\ inflight.rec = k))
        /\ (outcome[k] # "pending" /\ pc \in {"mr_start", "mr_send", "mr_resend"} =>
                mr.rec # k)
    /\ (inflight.kind = "data" =>
            /\ inflight.method = "POST"
            /\ inflight.endpoint \in {StudentsEndpoint, AssociationsEndpoint})
    /\ (mr.state # "idle" =>
            /\ mr.method = "POST"
            /\ mr.endpoint \in {StudentsEndpoint, AssociationsEndpoint})

\* The association POST of the first record was answered 500 after its
\* primary POST succeeded; the second record's primary POST is in flight.
C8_Witness ==
    /\ Len(students) = 2
    /\ outcome[1] = "association"
    /\ 1 \in primary_done
    /\ 1 \in assoc_sent
    /\ error_count = 1
    /\ success_count = 0
    /\ inflight = [kind |-> "data", endpoint |-> StudentsEndpoint, method |-> "POST",
                   rec |-> 2, token |-> "t1"]

\* C9: records are submitted one at a time in input order: every record
\* before the one a data request was last sent for is finished, no request
\* was sent yet for a later record, and a request in flight belongs to the
\* one record being loaded.
C9_InOrder ==
    /\ \A i \in Records :
        /\ (i < last_rec => outcome[i] # "pending" /\ attempts[i] = 1)
        /\ (i > last_rec => i \notin primary_done \cup assoc_sent)
    /\ (inflight.kind = "data" =>
            /\ inflight.rec = last_rec
            /\ inflight.rec = idx
            /\ outcome[inflight.rec] = "pending")
    /\ last_rec <= idx

\* The resend of the second record's association POST is in flight after
\* the first record loaded.
C9_Witness ==
    /\ pc = "mr_wait2"
    /\ inflight.rec = 2
    /\ inflight.endpoint = AssociationsEndpoint
    /\ outcome[1] = "success"
    /\ outcome[2] = "pending"

\* Both endpoint fields hold a non-empty URL.
BothSet == oauth_url \notin {None, ""} /\ data_management_api_url \notin {None, ""}

\* C10: once both endpoint fields are set (non-empty), a discover_endpoints
\* call sends no discovery GET and returns at once, and no step changes
\* either field.
C10_DiscoveryCached ==
    [][BothSet =>
        /\ oauth_url' = oauth_url
        /\ data_management_api_url' = data_management_api_url
        /\ inflight'.kind # "discovery"
        /\ (pc = "auth" => pc' = "auth_post")]_vars

\* A re-authentication that skipped discovery and is about to request a token.
C10_Witness ==
    /\ pc = "auth_post"
    /\ auth_from = "retry"
    /\ mr.reauths = 1
    /\ BothSet
    /\ inflight = NoRequest

\* C11: whenever a data request is on the wire, first send or resend, both
\* endpoint fields hold a non-empty URL, whatever discovery documents the
\* remote returned.
C11_EndpointsSetWhenSending ==
    /\ (inflight.kind = "data" => BothSet)
    /\ (mr.sends > 0 => BothSet)

\* A resend is on the wire, the endpoints are set.
C11_Witness ==
    /\ pc = "mr_wait2"
    /\ inflight.kind = "data"
    /\ mr.sends = 2
    /\ oauth_url = "u1"
    /\ data_management_api_url = "u1"

\* authenticate() is running.
Authenticating == pc \in {"auth", "disc_wait", "auth_post", "tok_wait"}

\* C12: authenticate() runs only (a) from the start of a make_request call
\* that found no (non-empty) token stored, before any send, or (b) right
\* after a 401 answer to the call's first send; a call that starts with a
\* token stored goes straight to its first send; nothing is requested before
\* the first make_request of a run.
C12_ReactiveAuthentication ==
    /\ [](Authenticating =>
            /\ mr.state = "active"
            /\ \/ /\ auth_from = "start"
                  /\ mr.sends = 0
                  /\ mr.auths = 1
                  /\ mr.reauths = 0
                  /\ access_token \in {None, ""}
               \/ /\ auth_from = "retry"
                  /\ mr.sends = 1
                  /\ mr.firstStatus = 401
                  /\ mr.reauths = 1)
    /\ [](inflight.kind \in {"token", "discovery"} => Authenticating)
    /\ [](mr.state = "idle" => inflight = NoRequest /\ access_token = None)
    /\ [][pc = "mr_start" /\ access_token \notin {None, ""} =>
            pc' = "mr_send" /\ inflight' = NoRequest /\ mr'.auths = 0]_vars
    /\ [][pc = "mr_send" /\ mr.auths = 0 /\ pc' = "mr_wait1" =>
            inflight'.kind = "data" /\ inflight'.token = access_token]_vars

\* The second record's primary call started with the token stored by the
\* first record's call and has its first request on the wire, having
\* authenticated nothing.
C12_Witness ==
    /\ pc = "mr_wait1"
    /\ mr.rec = 2
    /\ mr.endpoint = StudentsEndpoint
    /\ mr.auths = 0
    /\ mr.sends = 1
    /\ inflight.token = "t1"

\* C13 as stated: a first send that ends in a transport failure or in any
\* non-2xx status other than 401 makes the call fail, with no
\* re-authentication and no second send.
C13_Original ==
    (Ended /\ mr.sends >= 1 /\ mr.firstStatus \notin {200, 401}) =>
        /\ mr.state = "raised"
        /\ mr.reauths = 0
        /\ mr.sends = 1

\* C13 amended: re-authentication and resend are triggered only by a 401 on
\* the first send; a first send that ends in a transport failure or in a
\* 4xx/5xx status other than 401 makes the call fail with no
\* re-authentication and no second send; any other status (a 3xx that is not
\* followed) is handled like a 2xx, again with no re-authentication and no
\* second send.
C13_OnlyOn401 ==
    /\ (mr.firstStatus # 401 => mr.reauths = 0 /\ mr.sends <= 1 /\ mr.retryStatus = 0)
    /\ (mr.reauths > 0 => mr.firstStatus = 401)
    /\ (Ended /\ mr.sends = 1 /\ mr.firstStatus # 401 =>
            /\ mr.auths <= 1
            /\ (mr.firstStatus = 0 \/ RaiseForStatus(mr.firstStatus) =>
                    mr.state = "raised" /\ mr.failure = "request")
            /\ (mr.firstStatus = 304 => mr.failure \in {"-", "request"}))

\* A first send answered 500 ended the call: one send, no authenticate().
C13_Witness ==
    /\ pc = "raise"
    /\ mr.firstStatus = 500
    /\ mr.sends = 1
    /\ mr.auths = 0
    /\ mr.reauths = 0
    /\ mr.state = "raised"

\* What a run of n records puts on the wire when nothing fails: one
\* discovery GET, one token POST, then per record the students POST and
\* the studentSchoolAssociations POST.
ExpectedLog(n) ==
    [j \in 1..(2 * n + 2) |->
        IF j = 1 THEN [NoRequest EXCEPT !.kind = "discovery", !.method = "GET"]
        ELSE IF j = 2 THEN [NoRequest EXCEPT !.kind = "token", !.method = "POST"]
        ELSE [kind |-> "data",
              endpoint |-> IF j % 2 = 1 THEN StudentsEndpoint ELSE AssociationsEndpoint,
              method |-> "POST", rec |-> (j - 1) \div 2, token |-> ""]]
\* Every row has a numeric full-time flag and the school id is an integer.
AllRecordsValid ==
    /\ IntParses(school_id)
    /\ \A i \in Records : FloatParses(students[i].full_time)
AllLoaded ==
    /\ wire.log = ExpectedLog(Len(students))
    /\ success_count = Len(students)
    /\ error_count = 0

\* C14 as stated: when the remote accepts everything (valid discovery
\* document, valid credentials, every POST answered 2xx), loading N >= 1
\* records sends one discovery GET, one token request and 2N data POSTs,
\* primary then association per record, and ends with N successes.
C14_Original ==
    (BatchOver /\ wire.ok /\ Len(students) >= 1) => AllLoaded

\* C14 amended: the same, for N >= 1 records that all have a numeric
\* full-time flag, with an integer school id, and with every POST answered
\* by a 2xx whose body is empty or JSON.
C14_AcceptingRun ==
    (BatchOver /\ wire.ok /\ wire.clean /\ AllRecordsValid /\ Len(students) >= 1) =>
        AllLoaded

\* Two records loaded by six requests.
C14_Witness ==
    /\ pc = "done"
    /\ Len(students) = 2
    /\ wire.ok
    /\ wire.clean
    /\ Len(wire.log) = 6
    /\ success_count = 2
    /\ error_count = 0

RequiredKeys == {"studentUniqueId", "birthDate", "firstName", "lastSurName"}
RequiredField ==
    [studentUniqueId |-> "unique_id", birthDate |-> "birth_date",
     firstName |-> "first_name", lastSurName |-> "last_name"]
OptionalFields == {"middle_name", "title", "preferred_first_name", "preferred_last_name"}
TargetKey ==
    [middle_name |-> "middleName", title |-> "personalTitlePrefix",
     preferred_first_name |-> "preferredFirstName",
     preferred_last_name |-> "preferredLastSurname"]
PayloadKeys == {item[1] : item \in payload}

\* C15: the result of create_student_payload has exactly the four required
\* keys plus the target key of every optional field present on the record,
\* each key once and carrying its field's value; an absent optional field
\* gives no key, neither with null nor with an empty string.
C15_PayloadKeys ==
    pc = "payload_built" =>
        /\ PayloadKeys = RequiredKeys \cup
               {TargetKey[f] : f \in {g \in OptionalFields : student[g] \notin {None, ""}}}
        /\ Cardinality(payload) = Cardinality(PayloadKeys)
        /\ \A k \in RequiredKeys : <<k, student[RequiredField[k]]>> \in payload
        /\ \A f \in OptionalFields :
               student[f] \notin {None, ""} => <<TargetKey[f], student[f]>> \in payload
        /\ \A item \in payload :
               item[1] \notin RequiredKeys => item[2] \notin {None, ""}

\* A record with one optional field present, one empty and two null.
C15_Witness ==
    /\ pc = "payload_built"
    /\ student.middle_name = "Emily"
    /\ student.title = ""
    /\ student.preferred_first_name = None
    /\ student.preferred_last_name = None
    /\ Cardinality(payload) = 5

\* C16 as stated: once a request has observed a 401 the rejected token is
\* no longer the active session; a later send carries a token only if an
\* authentication that succeeded after that 401 stored it.
C16_Original ==
    (Ended /\ mr.firstStatus = 401 /\ ~ReauthSucceeded) => access_token # mr.rejected

\* C16 amended: a 401 does not clear the stored token.  The resend of the
\* call carries the token stored by the re-authentication that succeeded
\* after the 401; when that re-authentication fails the rejected token
\* stays the stored token, and a following call sends with the stored
\* token without authenticating.
C16_SessionAfter401 ==
    /\ [](mr.sends = 2 =>
            /\ mr.firstStatus = 401
            /\ ReauthSucceeded
            /\ mr.retryToken = mr.reauthStored)
    /\ []((Ended /\ mr.firstStatus = 401 /\ ~ReauthSucceeded) =>
            /\ mr.sends = 1
            /\ access_token = mr.rejected)
    /\ [][(pc = "mr_wait1" \/ pc = "mr_wait2") => access_token' = access_token]_vars
    /\ [][pc = "mr_start" /\ access_token \notin {None, ""} =>
            pc' = "mr_send" /\ access_token' = access_token]_vars
    /\ [][pc = "mr_send" /\ pc' = "mr_wait1" =>
            inflight'.token = access_token /\ access_token' = access_token]_vars

\* The first send was answered 401, the re-authentication failed, and the
\* rejected token is still the stored one.
C16_Witness ==
    /\ pc = "raise"
    /\ mr.firstStatus = 401
    /\ mr.reauths = 1
    /\ ~ReauthSucceeded
    /\ mr.rejected = "t1"
    /\ access_token = "t1"

\* C17: the stored token changes only in the step in which authenticate()
\* succeeds, to the token of the answer; an authenticate() that fails
\* leaves the stored token as it was, and no other step writes it.
C17_TokenWrittenByAuthenticate ==
    /\ [][access_token' # access_token =>
            /\ pc = "tok_wait"
            /\ pc' \in {"mr_send", "mr_resend"}
            /\ access_token' \in {r.access_token : r \in TokenResponses} \ {Missing}
            /\ (pc' = "mr_resend" => mr'.reauthStored = access_token')]_vars
    /\ [][(Authenticating /\ pc' = "raise") => access_token' = access_token]_vars
    /\ [][(pc = "tok_wait" /\ pc' = "mr_resend") =>
            access_token' = mr'.reauthStored]_vars

\* A re-authentication failed while the token stored by an earlier
\* re-authentication was in place, and that token is still stored.
C17_Witness ==
    /\ pc = "raise"
    /\ mr.failure = "authentication"
    /\ mr.reauths = 1
    /\ mr.rejected = "t2"
    /\ access_token = "t2"

\* C18: when the re-authentication triggered by a 401 fails, make_request
\* sends no retry; the authentication failure leaves make_request after
\* exactly one data send, and the batch counts the record as an error.
C18_ReauthFailurePropagates ==
    /\ (mr.sends = 2 => ReauthSucceeded)
    /\ (mr.reauths = 1 /\ ~ReauthSucceeded /\ ~Authenticating) =>
            /\ mr.sends = 1
            /\ mr.state = "raised"
            /\ mr.failure = "authentication"
            /\ mr.retryStatus = 0
            /\ (pc # "raise" =>
                    /\ outcome[mr.rec] \in {"primary", "association"}
                    /\ error_count >= 1
                    /\ TalliesAgree)

\* The first record was counted as an error after its re-authentication
\* failed, with one data request sent.
C18_Witness ==
    /\ pc = "loop"
    /\ mr.rec = 1
    /\ mr.reauths = 1
    /\ ~ReauthSucceeded
    /\ mr.sends = 1
    /\ outcome[1] = "primary"
    /\ error_count = 1

\* C19: a discover_endpoints call that fails leaves both endpoint fields
\* unset, so the endpoint set is never half-filled (one URL set, the other
\* not) in any reachable state.
C19_NeverHalfFilled ==
    (mr.state = "raised" /\ mr.failure = "discovery") =>
        /\ oauth_url \in {None, ""}
        /\ data_management_api_url \in {None, ""}

\* The association payload of row i cannot be built.
Unbuildable(i) == students[i].full_time = "abc" \/ school_id = "abc"
\* load_student failed between its two make_request calls.
PayloadFailed == pc = "raise" /\ mr.state = "returned"

\* C20 as stated: when the association payload of a record cannot be built,
\* load_student fails with no association POST sent and exactly one data
\* POST, the primary create, sent for the record.
C20_Original ==
    PayloadFailed => mr.sends = 1 /\ mr.rec \notin assoc_sent

\* C20 amended: the same, except that the data POSTs sent for the record
\* by then are the primary create only: one, or two when the first was
\* answered 401 and the create was sent again after re-authenticating.
C20_PayloadFailure ==
    /\ PayloadFailed =>
            /\ Unbuildable(mr.rec)
            /\ mr.endpoint = StudentsEndpoint
            /\ mr.rec \in primary_done
            /\ mr.rec \notin assoc_sent
            /\ mr.sends \in {1, 2}
            /\ (mr.sends = 2 <=> mr.firstStatus = 401)
    /\ \A i \in Records :
            /\ Unbuildable(i) =>
                    /\ i \notin assoc_sent
                    /\ outcome[i] \in {"pending", "primary", "payload"}
                    /\ (i \in primary_done /\ (idx > i \/ BatchOver) =>
                            outcome[i] = "payload")
            /\ outcome[i] = "payload" => Unbuildable(i) /\ i \in primary_done
    /\ TalliesAgree

\* The create of a record with a non-numeric full-time flag went through on
\* its resend, and the payload then failed to build.
C20_Witness ==
    /\ PayloadFailed
    /\ mr.sends = 2
    /\ mr.firstStatus = 401
    /\ students[mr.rec].full_time = "abc"
    /\ mr.rec \notin assoc_sent

====
